---- MODULE Spec2Model ----
(***************************************************************************)
(* The interactive core of rustyvim (src/editor.rs): the Editor's cursor,  *)
(* its viewport offset, the run loop (render, read one key, update) and    *)
(* the frame that refresh_screen sends to the terminal.                    *)
(*                                                                         *)
(* Strings are sequences of one-character strings, so that truncation,     *)
(* concatenation and containment are computed, not assumed.                *)
(***************************************************************************)
EXTENDS Integers, Sequences, FiniteSets, TLC

VARIABLES
    should_quit,        \* Editor.should_quit
    cursor_position,    \* Editor.cursor_position : Position
    offset,             \* Editor.offset : Position
    document,           \* Editor.document : [rows, file_name]
    status_message,     \* Editor.status_message : [text, time]
    terminal,           \* Editor.terminal : [size |-> [width, height]]
    args,               \* env::args() of the process
    pc,                 \* position of the thread in Editor::run
    screen,             \* what the terminal device was last sent
    run,                \* history: the one key read so far and how many times
    last,               \* history: the last key read and the fields it found
    since,              \* history: frames rendered since the last key, keys read since the last frame
    opened,             \* history: what Document::open returned to Editor::default
    now                 \* the clock Instant::now() reads, in seconds since construction

vars == << should_quit, cursor_position, offset, document, status_message,
           terminal, args, pc, screen, run, last, since, opened, now >>

----------------------------------------------------------------------------
(* Bounds of the model *)

MaxRows == 2        \* rows of a document
MaxRowLen == 2      \* characters of a row
MaxWidth == 2       \* terminal columns
MaxHeight == 2      \* terminal rows left for the document
MaxRun == 6         \* length up to which a run of one repeated key is recorded
MaxCoord == 5       \* coordinates given to scroll when it is checked on its own
MaxTime == 6        \* seconds of the clock that the timed runs are followed for

----------------------------------------------------------------------------
(* Values *)

\* usize arithmetic saturates at usize::MAX.  usize::MAX (2^64 - 1) is beyond
\* the integers TLC computes with; the cap is the largest integer it has, and
\* no value of the model comes near it.
USIZE_MAX == 2147483647

saturating_sub(a, b) == IF a > b THEN a - b ELSE 0

saturating_add(a, b) == IF a > USIZE_MAX - b THEN USIZE_MAX ELSE a + b

Position(px, py) == [x |-> px, y |-> py]

PositionDefault == Position(0, 0)

\* Option: None, or Some(v)
None == << >>

Some(v) == << v >>

IsSome(o) == Len(o) = 1

Unwrap(o) == o[1]

Alphabet == << "a", "b", "c", "d", "e", "f", "g", "h" >>

\* A row of n characters.
RowOf(n) == [i \in 1..n |-> Alphabet[i]]

\* Sequences over S of length at most n.
SeqsUpTo(S, n) == UNION { [1..k -> S] : k \in 0..n }

Rows == { RowOf(n) : n \in 0..MaxRowLen }

\* The paths that may be given on the command line.
FileNames == { << "x", ".", "r", "s" >> }

Keys == { "Ctrl-q", "Up", "Down", "Left", "Right",
          "PageUp", "PageDown", "End", "Home", "Other" }

NavigationKeys == { "Up", "Down", "Left", "Right",
                    "PageUp", "PageDown", "End", "Home" }

TerminalSizes == { [width |-> w, height |-> h] : w \in 1..MaxWidth, h \in 1..MaxHeight }

----------------------------------------------------------------------------
(* Document and Row, as the editor uses them *)

DocumentDefault == [rows |-> << >>, file_name |-> None]

\* document.len()
DocLen(doc) == Len(doc.rows)

\* document.is_empty()
DocIsEmpty(doc) == Len(doc.rows) = 0

\* document.row(index) is Some(row) exactly for index < len.
HasRow(doc, index) == index < Len(doc.rows)

RowAt(doc, index) == doc.rows[index + 1]

\* The `if let Some(row) = self.document.row(y) { row.len() } else { 0 }` idiom.
RowLenOrZero(doc, y) == IF HasRow(doc, y) THEN Len(RowAt(doc, y)) ELSE 0

----------------------------------------------------------------------------
(* Editor::move_cursor *)

\* Key::Up
MoveUp(cursor) == Position(cursor.x, saturating_sub(cursor.y, 1))

\* Key::Down with <= for < in its guard
MoveDownPastEnd(cursor, doc) ==
    IF cursor.y <= DocLen(doc)
    THEN Position(cursor.x, saturating_add(cursor.y, 1))
    ELSE cursor

\* Key::Down
MoveDown(cursor, doc) ==
    IF cursor.y < DocLen(doc)
    THEN Position(cursor.x, saturating_add(cursor.y, 1))
    ELSE cursor

\* Key::Left decrementing x without the x > 0 test
MoveLeftUnguarded(cursor, doc) == Position(cursor.x - 1, cursor.y)

\* Key::Left wrapping to the start of the previous row
MoveLeftToRowStart(cursor, doc) ==
    IF cursor.x > 0 THEN Position(cursor.x - 1, cursor.y)
    ELSE IF cursor.y > 0 THEN Position(0, cursor.y - 1)
         ELSE cursor

\* Key::Left
MoveLeft(cursor, doc) ==
    IF cursor.x > 0 THEN Position(cursor.x - 1, cursor.y)
    ELSE IF cursor.y > 0
         THEN Position(RowLenOrZero(doc, cursor.y - 1), cursor.y - 1)
         ELSE cursor

\* Key::Right wrapping only onto a row the document has
MoveRightWhileRowsRemain(cursor, doc) ==
    IF cursor.x < RowLenOrZero(doc, cursor.y) THEN Position(cursor.x + 1, cursor.y)
    ELSE IF cursor.y + 1 < DocLen(doc) THEN Position(0, cursor.y + 1)
    ELSE cursor

\* Key::Right moving past a row's end to the same column of the next line
MoveRightKeepsColumn(cursor, doc) ==
    IF cursor.x < RowLenOrZero(doc, cursor.y) THEN Position(cursor.x + 1, cursor.y)
    ELSE IF cursor.y < DocLen(doc) THEN Position(cursor.x, cursor.y + 1)
    ELSE cursor

\* Key::Right
MoveRight(cursor, doc) ==
    IF cursor.x < RowLenOrZero(doc, cursor.y) THEN Position(cursor.x + 1, cursor.y)
    ELSE IF cursor.y < DocLen(doc) THEN Position(0, cursor.y + 1)
    ELSE cursor

\* move_cursor without the snap to the line end
SnapNothing(pos, doc) == pos

\* Snap scrolling to line ends
SnapToLineEnd(pos, doc) ==
    LET width == RowLenOrZero(doc, pos.y)
    IN  Position(IF pos.x > width THEN width ELSE pos.x, pos.y)

\* move_cursor with PageDown going to the last row, End to the last character
move_cursor_to_last(cursor, doc, key) ==
    LET x == cursor.x
        y == cursor.y
        height == DocLen(doc)
        width == RowLenOrZero(doc, y)
        moved ==
            CASE key = "Up" -> MoveUp(cursor)
              [] key = "Down" -> MoveDown(cursor, doc)
              [] key = "Left" -> MoveLeft(cursor, doc)
              [] key = "Right" -> MoveRight(cursor, doc)
              [] key = "PageUp" -> Position(x, 0)
              [] key = "PageDown" -> Position(x, saturating_sub(height, 1))
              [] key = "Home" -> Position(0, y)
              [] key = "End" -> Position(saturating_sub(width, 1), y)
              [] OTHER -> cursor
    IN  SnapToLineEnd(moved, doc)

move_cursor(cursor, doc, key) ==
    LET x == cursor.x
        y == cursor.y
        height == DocLen(doc)
        width == RowLenOrZero(doc, y)
        moved ==
            CASE key = "Up" -> MoveUp(cursor)
              [] key = "Down" -> MoveDown(cursor, doc)
              [] key = "Left" -> MoveLeft(cursor, doc)
              [] key = "Right" -> MoveRight(cursor, doc)
              [] key = "PageUp" -> Position(x, 0)
              [] key = "PageDown" -> Position(x, height)
              [] key = "Home" -> Position(0, y)
              [] key = "End" -> Position(width, y)
              [] OTHER -> cursor
    IN  SnapToLineEnd(moved, doc)

----------------------------------------------------------------------------
(* Editor::scroll *)

\* scroll with the window's bottom snapped one short: cursor - size
scroll_axis_no_bump(c, o, size) ==
    IF c < o THEN c
    ELSE IF c >= saturating_add(o, size) THEN saturating_sub(c, size)
         ELSE o

\* scroll moving the window one step towards the cursor
scroll_axis_by_one(c, o, size) ==
    IF c < o THEN saturating_sub(o, 1)
    ELSE IF c >= saturating_add(o, size) THEN saturating_add(o, 1)
         ELSE o

\* scroll with > for >= in the test for a cursor past the window
scroll_axis_late(c, o, size) ==
    IF c < o THEN c
    ELSE IF c > saturating_add(o, size)
         THEN saturating_add(saturating_sub(c, size), 1)
         ELSE o

\* One axis of scroll: c the cursor coordinate, o the offset coordinate,
\* size the terminal's extent on that axis.
scroll_axis(c, o, size) ==
    IF c < o THEN c
    ELSE IF c >= saturating_add(o, size)
         THEN saturating_add(saturating_sub(c, size), 1)
         ELSE o

scroll(cursor, off, size) ==
    Position(scroll_axis(cursor.x, off.x, size.width),
             scroll_axis(cursor.y, off.y, size.height))

----------------------------------------------------------------------------
(* Editor::default *)

InitialStatus == << "C", "t", "r", "l", "-", "Q", " ", "t", "o", " ", "q", "u", "i", "t" >>

CantOpen == << "E", "R", "R", "O", "R", ":", " ", "C", "a", "n", "'", "t", " ",
               "o", "p", "e", "n", " " >>

\* StatusMessage::from
StatusMessageFrom(message, instant) == [text |-> message, time |-> instant]

\* Editor::default falling back to the default document without a word
EditorDefaultSilent(argv, doc_result, size) ==
    [ should_quit |-> FALSE,
      terminal |-> [size |-> size],
      document |-> IF Len(argv) > 1 /\ doc_result.ok THEN doc_result.doc
                   ELSE DocumentDefault,
      cursor_position |-> PositionDefault,
      offset |-> PositionDefault,
      status_message |-> StatusMessageFrom(InitialStatus, 0) ]

\* argv: env::args(), the program name first.  doc_result: the result of
\* Document::open on the path argv names, [ok |-> TRUE, doc |-> d] or
\* [ok |-> FALSE].
EditorDefault(argv, doc_result, size) ==
    LET failed == Len(argv) > 1 /\ ~doc_result.ok
        initial_status == IF failed THEN CantOpen \o argv[2] ELSE InitialStatus
        doc == IF Len(argv) > 1 /\ ~failed THEN doc_result.doc ELSE DocumentDefault
    IN  [ should_quit |-> FALSE,
          terminal |-> [size |-> size],
          document |-> doc,
          cursor_position |-> PositionDefault,
          offset |-> PositionDefault,
          status_message |-> StatusMessageFrom(initial_status, 0) ]

----------------------------------------------------------------------------
(* Strings and the terminal commands *)

\* " ".repeat(n)
Repeat(ch, n) == [i \in 1..n |-> ch]

\* String::truncate
Truncate(str, n) == IF n < Len(str) THEN SubSeq(str, 1, n) ELSE str

DecimalDigits == << "0", "1", "2", "3", "4", "5", "6", "7", "8", "9" >>

\* format!("{}", n) of a usize
RECURSIVE Decimal(_)
Decimal(n) ==
    IF n < 10 THEN << DecimalDigits[n + 1] >>
    ELSE Decimal(n \div 10) \o << DecimalDigits[(n % 10) + 1] >>

\* Row::render(start, end): the characters of the half-open range that the
\* row has; total for any range.
RowRender(row, start, end) ==
    LET e == IF end < Len(row) THEN end ELSE Len(row)
        b == IF start < e THEN start ELSE e
    IN  SubSeq(row, b + 1, e)

Cmd(name) == [op |-> name]

CursorPositionCmd(pos) == [op |-> "cursor_position", pos |-> pos]

PrintlnCmd(text) == [op |-> "println", text |-> text]

PrintCmd(text) == [op |-> "print", text |-> text]

ColorCmd(name, rgb) == [op |-> name, color |-> rgb]

STATUS_FG_COLOR == << 63, 63, 63 >>

STATUS_BG_COLOR == << 239, 239, 239 >>

\* CARGO_PKG_VERSION
VERSION == << "0", ".", "1", ".", "0" >>

----------------------------------------------------------------------------
(* Editor::draw_welcome_msg, draw_row, draw_rows *)

WelcomeText ==
    << "R", "u", "s", "t", "y", "V", "i", "m", " ", "-", "-", " ",
       "v", "e", "r", "s", "i", "o", "n", " " >> \o VERSION

\* draw_welcome_msg with the whole of the padding before the text
draw_welcome_msg_full_padding(size) ==
    LET width == size.width
        len == Len(WelcomeText)
        padding == saturating_sub(width, len) \div 2
        spaces == Repeat(" ", padding)
    IN  PrintlnCmd(Truncate(<< "~" >> \o spaces \o WelcomeText, width))

draw_welcome_msg(size) ==
    LET width == size.width
        len == Len(WelcomeText)
        padding == saturating_sub(width, len) \div 2
        spaces == Repeat(" ", saturating_sub(padding, 1))
    IN  PrintlnCmd(Truncate(<< "~" >> \o spaces \o WelcomeText, width))

draw_row(row, off, size) ==
    PrintlnCmd(RowRender(row, off.x, off.x + size.width))

\* What draw_rows prints on one terminal row.
TerminalRow(terminal_row, doc, off, size) ==
    IF HasRow(doc, terminal_row + off.y)
    THEN draw_row(RowAt(doc, terminal_row + off.y), off, size)
    ELSE IF DocIsEmpty(doc) /\ terminal_row = size.height \div 3
         THEN draw_welcome_msg(size)
         ELSE PrintlnCmd(<< "~" >>)

draw_rows(doc, off, size) ==
    [ j \in 1..(2 * size.height) |->
        IF j % 2 = 1
        THEN Cmd("clear_current_line")
        ELSE TerminalRow((j \div 2) - 1, doc, off, size) ]

----------------------------------------------------------------------------
(* Editor::draw_status_bar, draw_message_bar *)

NoName == << "[", "N", "o", " ", "N", "a", "m", "e", "]" >>

FileNameMax == 20

draw_status_bar(doc, cursor, size) ==
    LET width == size.width
        file_name == IF IsSome(doc.file_name)
                     THEN Truncate(Unwrap(doc.file_name), FileNameMax)
                     ELSE NoName
        status == file_name \o << " ", "-", " " >> \o Decimal(DocLen(doc))
                    \o << " ", "l", "i", "n", "e", "s" >>
        line_indicator == Decimal(saturating_add(cursor.y, 1)) \o << "/" >>
                            \o Decimal(DocLen(doc))
        len == Len(status) + Len(line_indicator)
        filled == IF width > len THEN status \o Repeat(" ", width - len) ELSE status
    IN  << ColorCmd("set_bg_color", STATUS_BG_COLOR),
           ColorCmd("set_fg_color", STATUS_FG_COLOR),
           PrintlnCmd(Truncate(filled \o line_indicator, width)),
           Cmd("reset_fg_color"),
           Cmd("reset_bg_color") >>

\* Duration::new(5, 0), in seconds
MessageSecs == 5

\* draw_message_bar with <= for < in the test of the message's age
draw_message_bar_a_second_more(message, instant, size) ==
    << Cmd("clear_current_line") >>
    \o (IF instant - message.time <= MessageSecs
        THEN << PrintCmd(Truncate(message.text, size.width)) >>
        ELSE << >>)

draw_message_bar(message, instant, size) ==
    << Cmd("clear_current_line") >>
    \o (IF instant - message.time < MessageSecs
        THEN << PrintCmd(Truncate(message.text, size.width)) >>
        ELSE << >>)

----------------------------------------------------------------------------
(* Editor::refresh_screen: the commands one call sends to the terminal *)

Goodbye == << "G", "o", "o", "d", "b", "y", "e", "." >>

\* refresh_screen showing the cursor again only after a Running frame
refresh_screen_quit_hidden(ed, instant) ==
    << Cmd("cursor_hide"), CursorPositionCmd(PositionDefault) >>
    \o (IF ed.should_quit
        THEN << PrintlnCmd(Goodbye), Cmd("clear_screen") >>
        ELSE draw_rows(ed.document, ed.offset, ed.terminal.size)
             \o draw_status_bar(ed.document, ed.cursor_position, ed.terminal.size)
             \o draw_message_bar(ed.status_message, instant, ed.terminal.size)
             \o << CursorPositionCmd(
                     Position(saturating_sub(ed.cursor_position.x, ed.offset.x),
                              saturating_sub(ed.cursor_position.y, ed.offset.y))),
                   Cmd("cursor_show") >>)
    \o << Cmd("flush") >>

\* refresh_screen placing the cursor at its place in the document
refresh_screen_cursor_in_document(ed, instant) ==
    << Cmd("cursor_hide"), CursorPositionCmd(PositionDefault) >>
    \o (IF ed.should_quit
        THEN << PrintlnCmd(Goodbye), Cmd("clear_screen") >>
        ELSE draw_rows(ed.document, ed.offset, ed.terminal.size)
             \o draw_status_bar(ed.document, ed.cursor_position, ed.terminal.size)
             \o draw_message_bar(ed.status_message, instant, ed.terminal.size)
             \o << CursorPositionCmd(ed.cursor_position) >>)
    \o << Cmd("cursor_show"), Cmd("flush") >>

\* ed: the Editor's fields; instant: what Instant::now() returns in the call.
refresh_screen(ed, instant) ==
    << Cmd("cursor_hide"), CursorPositionCmd(PositionDefault) >>
    \o (IF ed.should_quit
        THEN << PrintlnCmd(Goodbye), Cmd("clear_screen") >>
        ELSE draw_rows(ed.document, ed.offset, ed.terminal.size)
             \o draw_status_bar(ed.document, ed.cursor_position, ed.terminal.size)
             \o draw_message_bar(ed.status_message, instant, ed.terminal.size)
             \o << CursorPositionCmd(
                     Position(saturating_sub(ed.cursor_position.x, ed.offset.x),
                              saturating_sub(ed.cursor_position.y, ed.offset.y))) >>)
    \o << Cmd("cursor_show"), Cmd("flush") >>

\* die without Terminal::clear_screen
die_without_clear(sent) == sent

\* die: clear the screen, then panic.
die(sent) == Append(sent, Cmd("clear_screen"))

----------------------------------------------------------------------------
(* Editor::process_keypress, once read_key has returned pressed_key *)

\* process_keypress with every unmatched key quitting as Ctrl-q does
process_keypress_quit_on_other(ed, pressed_key) ==
    LET moved == IF pressed_key \in NavigationKeys
                 THEN move_cursor(ed.cursor_position, ed.document, pressed_key)
                 ELSE ed.cursor_position
    IN  [ ed EXCEPT
            !.should_quit = IF pressed_key \in { "Ctrl-q", "Other" } THEN TRUE ELSE @,
            !.cursor_position = moved,
            !.offset = scroll(moved, @, ed.terminal.size) ]

\* process_keypress with scroll run on the cursor as it was before the key
process_keypress_scroll_first(ed, pressed_key) ==
    LET moved == IF pressed_key \in NavigationKeys
                 THEN move_cursor(ed.cursor_position, ed.document, pressed_key)
                 ELSE ed.cursor_position
    IN  [ ed EXCEPT
            !.should_quit = IF pressed_key = "Ctrl-q" THEN TRUE ELSE @,
            !.cursor_position = moved,
            !.offset = scroll(ed.cursor_position, @, ed.terminal.size) ]

\* process_keypress with every unmatched key moving the cursor as Down does
process_keypress_other_moves(ed, pressed_key) ==
    LET moved == IF pressed_key \in NavigationKeys
                 THEN move_cursor(ed.cursor_position, ed.document, pressed_key)
                 ELSE IF pressed_key = "Ctrl-q"
                      THEN ed.cursor_position
                      ELSE move_cursor(ed.cursor_position, ed.document, "Down")
    IN  [ ed EXCEPT
            !.should_quit = IF pressed_key = "Ctrl-q" THEN TRUE ELSE @,
            !.cursor_position = moved,
            !.offset = scroll(moved, @, ed.terminal.size) ]

\* The fields of the Editor ed after the match on pressed_key and self.scroll().
process_keypress(ed, pressed_key) ==
    LET moved == IF pressed_key \in NavigationKeys
                 THEN move_cursor(ed.cursor_position, ed.document, pressed_key)
                 ELSE ed.cursor_position
    IN  [ ed EXCEPT
            !.should_quit = IF pressed_key = "Ctrl-q" THEN TRUE ELSE @,
            !.cursor_position = moved,
            !.offset = scroll(moved, @, ed.terminal.size) ]

\* The history of the keys read: one key repeated n times, or "unrecorded".
RunAfter(r, pressed_key) ==
    IF r.n < MaxRun /\ r.key \in {"none", pressed_key}
    THEN [key |-> pressed_key, n |-> r.n + 1]
    ELSE [key |-> "unrecorded", n |-> MaxRun]

----------------------------------------------------------------------------
(* The state after construction *)

\* The history of one call: the key it read and the fields it found.
Found(pressed_key, quit, cursor, off) ==
    [key |-> pressed_key, should_quit |-> quit, cursor_position |-> cursor, offset |-> off]

Program == << "r", "v" >>

\* What Document::open may return for a path.
OpenResults(path) ==
    { [ok |-> FALSE] }
    \cup { [ok |-> TRUE, doc |-> [rows |-> r, file_name |-> Some(path)]] :
              r \in SeqsUpTo(Rows, MaxRows) }

Init ==
    \E argv \in { << Program >> } \cup { << Program, f >> : f \in FileNames },
       size \in TerminalSizes :
        \E opnd \in (IF Len(argv) > 1 THEN OpenResults(argv[2]) ELSE { [ok |-> FALSE] }) :
            LET ed == EditorDefault(argv, opnd, size)
            IN  /\ args = argv
                /\ should_quit = ed.should_quit
                /\ terminal = ed.terminal
                /\ document = ed.document
                /\ cursor_position = ed.cursor_position
                /\ offset = ed.offset
                /\ status_message = ed.status_message
                /\ pc = "refresh_screen"
                /\ screen = << >>
                /\ run = [key |-> "none", n |-> 0]
                /\ since = [frames |-> 0, keys |-> 0]
                /\ opened = opnd
                /\ now = 0
                /\ last = Found("none", ed.should_quit, ed.cursor_position, ed.offset)

----------------------------------------------------------------------------
(* Editor::run, one action per call it makes *)

\* The Editor's fields.
Self ==
    [ should_quit |-> should_quit,
      terminal |-> terminal,
      cursor_position |-> cursor_position,
      offset |-> offset,
      document |-> document,
      status_message |-> status_message ]

\* self.refresh_screen() returns Ok; then `if self.should_quit { break; }`.
RefreshScreen ==
    /\ pc = "refresh_screen"
    /\ screen' = refresh_screen(Self, now)
    /\ pc' = IF should_quit THEN "exited" ELSE "process_keypress"
    /\ since' = [frames |-> since.frames + 1, keys |-> 0]
    /\ UNCHANGED << should_quit, cursor_position, offset, document,
                    status_message, terminal, args, run, last, opened, now >>

\* self.refresh_screen() returns the Err of Terminal::flush; die(error).
RefreshScreenErr ==
    /\ pc = "refresh_screen"
    /\ screen' = die(refresh_screen(Self, now))
    /\ pc' = "died"
    /\ UNCHANGED << should_quit, cursor_position, offset, document,
                    status_message, terminal, args, run, last, since, opened, now >>

\* self.process_keypress() reads pressed_key and returns Ok.
ProcessKeypress(pressed_key) ==
    /\ pc = "process_keypress"
    /\ LET ed == process_keypress(Self, pressed_key)
       IN  /\ should_quit' = ed.should_quit
           /\ cursor_position' = ed.cursor_position
           /\ offset' = ed.offset
    /\ run' = RunAfter(run, pressed_key)
    /\ last' = Found(pressed_key, should_quit, cursor_position, offset)
    /\ since' = [frames |-> 0, keys |-> since.keys + 1]
    /\ pc' = "refresh_screen"
    /\ UNCHANGED << document, status_message, terminal, args, screen, opened, now >>

\* Terminal::read_key fails: process_keypress returns Err at the `?`; die(error).
ProcessKeypressErr ==
    /\ pc = "process_keypress"
    /\ screen' = die(screen)
    /\ pc' = "died"
    /\ UNCHANGED << should_quit, cursor_position, offset, document,
                    status_message, terminal, args, run, last, since, opened, now >>

Next ==
    \/ RefreshScreen
    \/ RefreshScreenErr
    \/ \E pressed_key \in Keys : ProcessKeypress(pressed_key)
    \/ ProcessKeypressErr

\* Spec: the runs in which every key arrives within the second of construction.
Spec == Init /\ [][Next]_vars

----------------------------------------------------------------------------
(* The runs in which time passes, on documents of at most one row *)

\* A second passes while read_key blocks.
Tick ==
    /\ pc = "process_keypress"
    /\ now < MaxTime
    /\ now' = now + 1
    /\ UNCHANGED << should_quit, cursor_position, offset, document,
                    status_message, terminal, args, pc, screen, run, last,
                    since, opened >>

InitClock == Init /\ DocLen(document) <= 1

NextClock ==
    \/ Next
    \/ Tick

SpecClock == InitClock /\ [][NextClock]_vars

----------------------------------------------------------------------------
(* scroll on its own: any cursor, any prior offset, any terminal size *)

Coords == 0..MaxCoord

InitScroll ==
    /\ cursor_position \in { Position(cx, cy) : cx \in Coords, cy \in Coords }
    /\ offset \in { Position(ox, oy) : ox \in Coords, oy \in Coords }
    /\ terminal \in { [size |-> sz] : sz \in TerminalSizes }
    /\ should_quit = FALSE
    /\ document = DocumentDefault
    /\ status_message = StatusMessageFrom(InitialStatus, 0)
    /\ args = << Program >>
    /\ pc = "scroll"
    /\ screen = << >>
    /\ run = [key |-> "none", n |-> 0]
    /\ since = [frames |-> 0, keys |-> 0]
    /\ opened = [ok |-> FALSE]
    /\ now = 0
    /\ last = Found("none", should_quit, cursor_position, offset)

\* self.scroll(), a first time
ScrollOnce ==
    /\ pc = "scroll"
    /\ offset' = scroll(cursor_position, offset, terminal.size)
    /\ last' = Found("none", should_quit, cursor_position, offset)
    /\ pc' = "scroll_again"
    /\ UNCHANGED << should_quit, cursor_position, document, status_message,
                    terminal, args, screen, run, since, opened, now >>

\* self.scroll(), a second time with the cursor where it was
ScrollAgain ==
    /\ pc = "scroll_again"
    /\ offset' = scroll(cursor_position, offset, terminal.size)
    /\ last' = Found("none", should_quit, cursor_position, offset)
    /\ pc' = "scrolled_twice"
    /\ UNCHANGED << should_quit, cursor_position, document, status_message,
                    terminal, args, screen, run, since, opened, now >>

NextScroll ==
    \/ ScrollOnce
    \/ ScrollAgain

SpecScroll == InitScroll /\ [][NextScroll]_vars

----------------------------------------------------------------------------
(* The runs without a file, on terminals wide enough for the welcome message *)

MaxWelcomeWidth == 31

MaxWelcomeHeight == 4

WelcomeSizes ==
    { [width |-> w, height |-> h] : w \in 1..MaxWelcomeWidth, h \in 1..MaxWelcomeHeight }

InitWelcome ==
    \E size \in WelcomeSizes :
        LET ed == EditorDefault(<< Program >>, [ok |-> FALSE], size)
        IN  /\ args = << Program >>
            /\ should_quit = ed.should_quit
            /\ terminal = ed.terminal
            /\ document = ed.document
            /\ cursor_position = ed.cursor_position
            /\ offset = ed.offset
            /\ status_message = ed.status_message
            /\ pc = "refresh_screen"
            /\ screen = << >>
            /\ run = [key |-> "none", n |-> 0]
            /\ since = [frames |-> 0, keys |-> 0]
            /\ opened = [ok |-> FALSE]
            /\ now = 0
            /\ last = Found("none", ed.should_quit, ed.cursor_position, ed.offset)

SpecWelcome == InitWelcome /\ [][Next]_vars

----------------------------------------------------------------------------
(* Properties of scroll, under SpecScroll *)

Scrolled == pc \in { "scroll_again", "scrolled_twice" }

InWindow(c, o, size) == o <= c /\ c < o + size

\* C1: for any cursor, any prior offset and any terminal size of positive
\* width and height, after scroll the cursor lies inside the visible window:
\* offset.y <= cursor.y < offset.y + height, offset.x <= cursor.x < offset.x + width.
ScrollKeepsCursorInWindow ==
    (Scrolled /\ terminal.size.width > 0 /\ terminal.size.height > 0)
        => /\ InWindow(cursor_position.y, offset.y, terminal.size.height)
           /\ InWindow(cursor_position.x, offset.x, terminal.size.width)

\* scroll has moved the window down to a cursor below it and left to a cursor
\* before it.
ScrollKeepsCursorInWindowWitness ==
    /\ pc = "scroll_again"
    /\ cursor_position.y >= last.offset.y + terminal.size.height
    /\ cursor_position.x < last.offset.x
    /\ offset # last.offset
    /\ terminal.size.height > 1

\* C5: scroll is idempotent: with the cursor and the terminal size unchanged,
\* a second scroll leaves the offset the first one produced as it is.
ScrollIdempotent ==
    pc = "scrolled_twice" => offset = last.offset

\* The first scroll had moved the window on both axes; the second found that offset.
ScrollIdempotentWitness ==
    /\ pc = "scrolled_twice"
    /\ last.offset.y + terminal.size.height = cursor_position.y + 1
    /\ last.offset.y > 0
    /\ last.offset.x + terminal.size.width = cursor_position.x + 1
    /\ last.offset.x > 0

\* The three cases of one axis, in integer arithmetic: o the offset before,
\* o2 the offset after.
AxisMinimal(c, o, o2, size) ==
    /\ InWindow(c, o, size) => o2 = o
    /\ c < o => o2 = c
    /\ c >= o + size => o2 = c - size + 1

\* C6: scroll adjusts the offset minimally and per axis: a cursor coordinate
\* inside [offset, offset + size) leaves the offset coordinate unchanged, one
\* before the window makes it the cursor coordinate, one at or past
\* offset + size makes it cursor - size + 1; nothing else is produced.
ScrollMinimal ==
    pc = "scroll_again"
        => /\ AxisMinimal(cursor_position.x, last.offset.x, offset.x, terminal.size.width)
           /\ AxisMinimal(cursor_position.y, last.offset.y, offset.y, terminal.size.height)

\* One axis was left alone while the other was moved: x inside its window
\* and unchanged, y past the window and snapped to its bottom.
ScrollMinimalWitness ==
    /\ pc = "scroll_again"
    /\ InWindow(cursor_position.x, last.offset.x, terminal.size.width)
    /\ last.offset.x > 0
    /\ offset.x = last.offset.x
    /\ cursor_position.y >= last.offset.y + terminal.size.height
    /\ offset.y = cursor_position.y - terminal.size.height + 1

----------------------------------------------------------------------------
(* Properties of the cursor, under Spec *)

Min(a, b) == IF a < b THEN a ELSE b

\* C2: in every state reachable by key events from the initial cursor (0,0),
\* cursor.y <= document.len(); Down increments y only while y < document.len(),
\* so after k presses of Down alone y = min(k, document.len()): k >= N presses
\* on N rows end at y = N.
CursorRowBounded ==
    /\ cursor_position.y <= DocLen(document)
    /\ run.key = "Down" => cursor_position.y = Min(run.n, DocLen(document))

\* Down has been pressed more often than the document has rows.
CursorRowBoundedWitness ==
    /\ run.key = "Down"
    /\ DocLen(document) >= 2
    /\ run.n >= DocLen(document) + 2
    /\ cursor_position.y = DocLen(document)

\* A document of one row at least as long as the terminal is wide.
OneLongRow ==
    /\ DocLen(document) = 1
    /\ terminal.size.width <= Len(RowAt(document, 0))

CursorWithinRow ==
    cursor_position.x <= RowLenOrZero(document, cursor_position.y)

\* A vertical move has arrived from a column the new row does not have.
CursorWithinRowWitness ==
    /\ last.key \in { "Up", "Down", "PageUp", "PageDown" }
    /\ last.cursor_position.y # cursor_position.y
    /\ HasRow(document, cursor_position.y)
    /\ last.cursor_position.x > Len(RowAt(document, cursor_position.y))
    /\ cursor_position.x = Len(RowAt(document, cursor_position.y))
    /\ cursor_position.x > 0

----------------------------------------------------------------------------
(* Properties of the loop, under Spec *)

\* The frame holds the exit line.
GoodbyeFrame(sent) ==
    \E i \in 1..Len(sent) : sent[i].op = "println" /\ sent[i].text = Goodbye

\* Where the frame leaves the terminal's cursor.
ShownCursor(sent) ==
    LET i == CHOOSE k \in 1..Len(sent) :
                /\ sent[k].op = "cursor_position"
                /\ \A j \in (k + 1)..Len(sent) : sent[j].op # "cursor_position"
    IN  sent[i].pos

\* What draw_rows put on the frame.
ShownRows(sent, size) == SubSeq(sent, 3, 2 + 2 * size.height)

LoopOver == pc \in { "exited", "died" }

QuitStates ==
    /\ run.key = "none" => ~should_quit
    /\ should_quit => last.key = "Ctrl-q"
    /\ pc = "process_keypress" => ~should_quit
    /\ (should_quit /\ pc = "refresh_screen")
            => since.frames = 0 /\ ~GoodbyeFrame(screen)
    /\ pc = "exited" => should_quit /\ since.frames = 1 /\ GoodbyeFrame(screen)

QuitSteps ==
    /\ should_quit => should_quit'
    /\ (should_quit' /\ ~should_quit) => last'.key = "Ctrl-q"
    /\ (should_quit /\ pc = "refresh_screen") => pc' \in { "exited", "died" }
    /\ ~LoopOver

\* C7: the editor starts Running; Ctrl-Q is the only event that makes it
\* Quitting and the flag is never reset; once Ctrl-Q is processed exactly one
\* more frame, the goodbye frame, is rendered and the loop ends without another
\* key being read; the loop ends in no other way but a fatal I/O error.
QuitEndsLoopAfterGoodbye == []QuitStates /\ [][QuitSteps]_vars

\* The loop has ended by Ctrl-Q after the cursor was moved.
QuitEndsLoopAfterGoodbyeWitness ==
    /\ pc = "exited"
    /\ last.key = "Ctrl-q"
    /\ last.cursor_position # PositionDefault
    /\ GoodbyeFrame(screen)

\* C8: the loop is render, read, update in strict sequence: a key is read only
\* right after exactly one frame, one key is read per iteration, and the frame
\* shows the cursor and offset that move_cursor followed by scroll produced
\* from what the previous key found.
RenderReadUpdate ==
    /\ pc = "process_keypress"
            => /\ since = [frames |-> 1, keys |-> 0]
               /\ ShownRows(screen, terminal.size)
                    = draw_rows(document, offset, terminal.size)
               /\ ShownCursor(screen)
                    = Position(cursor_position.x - offset.x, cursor_position.y - offset.y)
    /\ pc = "refresh_screen"
            => /\ since.frames = 0
               /\ since.keys = (IF last.key = "none" THEN 0 ELSE 1)
    /\ last.key # "none"
            => LET moved == IF last.key \in NavigationKeys
                            THEN move_cursor(last.cursor_position, document, last.key)
                            ELSE last.cursor_position
               IN  /\ cursor_position = moved
                   /\ offset = scroll(moved, last.offset, terminal.size)

\* A frame has been rendered after a key that moved the cursor and the window.
RenderReadUpdateWitness ==
    /\ pc = "process_keypress"
    /\ last.key = "Down"
    /\ cursor_position.y = last.cursor_position.y + 1
    /\ offset.y = last.offset.y + 1
    /\ ShownCursor(screen).y = terminal.size.height - 1

FatalStates ==
    pc = "died" => screen[Len(screen)].op = "clear_screen"

FatalSteps ==
    /\ pc # "died"
    /\ pc' = "died" => since' = since /\ last' = last
    /\ (pc = "process_keypress" /\ pc' = "died")
            => UNCHANGED << cursor_position, offset, should_quit >>

\* C9: an I/O failure in the loop, of flush in refresh_screen or of read_key
\* in process_keypress, is fatal: the screen is cleared and the loop ends at
\* once, with no retry, no further frame and no further key; a failed read_key
\* leaves cursor_position, offset and should_quit as they were.
IoFailureIsFatal == []FatalStates /\ [][FatalSteps]_vars

\* read_key has failed after keys that moved the cursor.
IoFailureIsFatalWitness ==
    /\ pc = "died"
    /\ since.frames = 1
    /\ last.key = "Right"
    /\ cursor_position.x > 0
    /\ screen[Len(screen)].op = "clear_screen"

----------------------------------------------------------------------------
(* Properties of construction, under Spec *)

\* part occurs in text
Contains(text, part) ==
    \E i \in 0..(Len(text) - Len(part)) : SubSeq(text, i + 1, i + Len(part)) = part

OpenFailed == Len(args) > 1 /\ ~opened.ok

Constructed == run.key = "none" /\ screen = << >>

\* C10: when the path given on the command line cannot be opened, the editor
\* is constructed all the same: Running, with the empty default document,
\* cursor and offset (0,0), and a status message that contains the path.
OpenFailureRecovered ==
    OpenFailed
        => /\ document = DocumentDefault
           /\ Contains(status_message.text, args[2])
           /\ Constructed => /\ pc = "refresh_screen"
                             /\ ~should_quit
                             /\ cursor_position = PositionDefault
                             /\ offset = PositionDefault

\* The editor whose file could not be opened has drawn its first frame and
\* waits for a key.
OpenFailureRecoveredWitness ==
    /\ OpenFailed
    /\ pc = "process_keypress"
    /\ since.frames = 1
    /\ DocIsEmpty(document)

----------------------------------------------------------------------------
(* Properties of the message bar, under SpecClock *)

\* The frame is one of a Running editor.
RunningFrame(sent) == sent # << >> /\ ~GoodbyeFrame(sent)

\* What the frame printed on the message bar: print! is used there alone.
MessageBarTexts(sent) ==
    { sent[i].text : i \in { k \in 1..Len(sent) : sent[k].op = "print" } }

MessageBarSteps ==
    /\ status_message' = status_message
    /\ now' >= now
    /\ (pc = "refresh_screen" /\ ~should_quit)
            => MessageBarTexts(screen')
                 = (IF now - status_message.time < 5
                    THEN { Truncate(status_message.text, terminal.size.width) }
                    ELSE { })
    /\ (RunningFrame(screen) /\ MessageBarTexts(screen) = { } /\ RunningFrame(screen'))
            => MessageBarTexts(screen') = { }

\* C11: a frame's message bar shows the status message text exactly when the
\* message is less than 5 seconds old at the time of the frame; no key event
\* replaces or clears the message, so once a frame shows a blank message bar
\* every later frame does.
MessageBarShownWhileFresh == [][MessageBarSteps]_vars

\* A frame with a blank message bar has been drawn, five seconds or more
\* after the message was made, after a key was processed.
MessageBarShownWhileFreshWitness ==
    /\ pc = "process_keypress"
    /\ RunningFrame(screen)
    /\ MessageBarTexts(screen) = { }
    /\ now - status_message.time >= 5
    /\ last.key # "none"

----------------------------------------------------------------------------
(* Properties of the frame, under Spec *)

\* The places of the commands named name in what was sent.
Places(sent, name) == { k \in 1..Len(sent) : sent[k].op = name }

\* The places where the exit line is printed.
GoodbyePlaces(sent) ==
    { k \in Places(sent, "println") : sent[k].text = Goodbye }

\* C12: the terminal is never left with the cursor hidden: the Quitting frame
\* prints the exit line and shows the cursor after hiding it before the loop
\* ends, and in every frame each cursor_hide is followed by a cursor_show, so
\* the last of the two before the loop ends, however it ends, is cursor_show.
CursorShownAgain ==
    /\ \A i \in Places(screen, "cursor_hide") :
            \E j \in Places(screen, "cursor_show") : j > i
    /\ LoopOver => Places(screen, "cursor_show") # { }
    /\ pc = "exited"
            => \E h \in Places(screen, "cursor_hide"), g \in GoodbyePlaces(screen),
                  w \in Places(screen, "cursor_show") : h < g /\ g < w

\* The loop has ended on Ctrl-q with the cursor hidden, then shown.
CursorShownAgainWitness ==
    /\ pc = "exited"
    /\ should_quit
    /\ Places(screen, "cursor_hide") = { 1 }
    /\ Places(screen, "cursor_show") = { Len(screen) - 1 }

----------------------------------------------------------------------------
(* Properties of the keys, under Spec: last is what the key found *)

\* Left and Right away from a row's end, and Left at a row's start.
StepsWithinRows ==
    LET x == last.cursor_position.x
        y == last.cursor_position.y
    IN  /\ (last.key = "Left" /\ x > 0) => cursor_position = Position(x - 1, y)
        /\ (last.key = "Left" /\ x = 0 /\ y > 0)
                => cursor_position = Position(RowLenOrZero(document, y - 1), y - 1)
        /\ (last.key = "Right" /\ x < RowLenOrZero(document, y))
                => cursor_position = Position(x + 1, y)

AtRowEnd ==
    last.cursor_position.x = RowLenOrZero(document, last.cursor_position.y)

CursorNeverNegative ==
    /\ cursor_position.x >= 0
    /\ cursor_position.y >= 0
    /\ (last.key = "Up" /\ last.cursor_position.y = 0)
            => cursor_position = last.cursor_position
    /\ (last.key = "Left" /\ last.cursor_position = PositionDefault)
            => cursor_position = last.cursor_position

\* Left has been pressed at (0,0) of a document that has rows.
CursorNeverNegativeWitness ==
    /\ last.key = "Left"
    /\ last.cursor_position = PositionDefault
    /\ cursor_position = PositionDefault
    /\ RowLenOrZero(document, 0) > 0
    /\ DocLen(document) > 1

\* C15: PageUp sets y = 0 and PageDown sets y = document.len(), x then being
\* clamped to the length of the row now at y (so x = 0 after PageDown, no row
\* being at document.len()); Home sets x = 0 and End sets x = len(row(y)),
\* both leaving y as it is.
JumpKeys ==
    LET x == last.cursor_position.x
        y == last.cursor_position.y
    IN  /\ last.key = "PageUp"
            => cursor_position = Position(Min(x, RowLenOrZero(document, 0)), 0)
        /\ last.key = "PageDown"
            => cursor_position = Position(0, DocLen(document))
        /\ last.key = "Home" => cursor_position = Position(0, y)
        /\ last.key = "End"
            => cursor_position = Position(RowLenOrZero(document, y), y)

\* PageDown has left a column of a row for the line after the last row.
JumpKeysWitness ==
    /\ last.key = "PageDown"
    /\ last.cursor_position.x > 0
    /\ last.cursor_position.y < DocLen(document)
    /\ cursor_position = Position(0, DocLen(document))

----------------------------------------------------------------------------
(* Properties of the welcome message, under SpecWelcome *)

Max(a, b) == IF a > b THEN a ELSE b

\* The line the claim gives for the banner on a terminal of this width.
BannerLine(width) ==
    Truncate(<< "~" >>
             \o Repeat(" ", Max(0, ((width - Len(WelcomeText)) \div 2) - 1))
             \o WelcomeText,
             width)

\* The text of content row i, from 0, of a Running frame.
ContentRow(sent, i) == sent[2 + 2 * (i + 1)]

\* C16: with an empty document every Running frame draws the welcome banner
\* on the content row of index height / 3 and the marker "~" on every other
\* content row; the banner line is the marker, max(0, (width - text_len) / 2 - 1)
\* spaces and the banner text, truncated to at most width characters.
WelcomeOnOneRow ==
    (RunningFrame(screen) /\ DocIsEmpty(document))
        => \A i \in 0..(terminal.size.height - 1) :
              /\ ContentRow(screen, i).op = "println"
              /\ ContentRow(screen, i).text
                    = (IF i = terminal.size.height \div 3
                       THEN BannerLine(terminal.size.width)
                       ELSE << "~" >>)

\* A Running frame on a terminal wide enough for the banner to be indented in
\* full, on a row that is not the first.
WelcomeOnOneRowWitness ==
    /\ RunningFrame(screen)
    /\ DocIsEmpty(document)
    /\ terminal.size.height \div 3 = 1
    /\ Len(ContentRow(screen, 1).text) = Len(WelcomeText) + 3
    /\ Len(ContentRow(screen, 1).text) < terminal.size.width
    /\ ContentRow(screen, 0).text = << "~" >>

----------------------------------------------------------------------------
(* Properties of the other keys, under Spec *)

\* C17: a key other than Ctrl-q and the eight navigation keys is ignored: on a
\* terminal of positive width and height, cursor_position, offset and
\* should_quit are after it what they were before it, scroll having run;
\* after Ctrl-q, cursor_position and offset are what they were before it.
OtherKeysIgnored ==
    (terminal.size.width > 0 /\ terminal.size.height > 0)
        => /\ last.key \notin (NavigationKeys \cup { "Ctrl-q", "none" })
                => /\ cursor_position = last.cursor_position
                   /\ offset = last.offset
                   /\ should_quit = last.should_quit
           /\ last.key = "Ctrl-q"
                => /\ cursor_position = last.cursor_position
                   /\ offset = last.offset

\* A key that is ignored has been read with the window scrolled down and the
\* cursor inside a row.
OtherKeysIgnoredWitness ==
    /\ last.key = "Other"
    /\ last.offset.y > 0
    /\ last.cursor_position.x > 0
    /\ cursor_position = last.cursor_position
    /\ offset = last.offset
    /\ ~should_quit

----------------------------------------------------------------------------
(* Properties of the cursor on the screen, under Spec *)

\* C18: in every Running frame, the first included, on a terminal of positive
\* width and height, offset.x <= cursor.x and offset.y <= cursor.y, so that
\* the saturating subtraction does not saturate, and the cursor is placed at
\* (cursor.x - offset.x, cursor.y - offset.y), within 0..width-1 by 0..height-1.
ScreenCursorInWindow ==
    (terminal.size.width > 0 /\ terminal.size.height > 0)
        => /\ offset.x <= cursor_position.x
           /\ offset.y <= cursor_position.y
           /\ (RunningFrame(screen) /\ pc # "refresh_screen")
                => /\ ShownCursor(screen)
                        = Position(cursor_position.x - offset.x,
                                   cursor_position.y - offset.y)
                   /\ ShownCursor(screen).x \in 0..(terminal.size.width - 1)
                   /\ ShownCursor(screen).y \in 0..(terminal.size.height - 1)

\* A Running frame drawn with the window scrolled down and to the right, the
\* cursor not at the window's corner.
ScreenCursorInWindowWitness ==
    /\ RunningFrame(screen)
    /\ pc = "process_keypress"
    /\ offset.x > 0
    /\ offset.y > 0
    /\ ShownCursor(screen) # PositionDefault
    /\ ShownCursor(screen) # cursor_position

----------------------------------------------------------------------------
(* Properties of the Quitting frame, under Spec *)

\* The commands that erase what is on the screen.
Erasures(sent) == Places(sent, "clear_screen") \cup Places(sent, "clear_current_line")

\* C19: in the Quitting frame the exit line is the last thing drawn: nothing
\* is erased after "Goodbye." is printed, so that the exit line is on the
\* screen when the loop terminates, and no content row, status bar or message
\* bar is drawn in that frame.
GoodbyeLeftOnScreen ==
    pc = "exited"
        => /\ GoodbyePlaces(screen) # {}
           /\ \A g \in GoodbyePlaces(screen) :
                \A k \in Erasures(screen) : k < g
           /\ Places(screen, "println") = GoodbyePlaces(screen)
           /\ Places(screen, "print") = {}
           /\ Places(screen, "set_bg_color") = {}

----------------------------------------------------------------------------
(* Left and Right after one another, under Spec *)

\* The position after the last one of the document.
FinalPosition == Position(0, DocLen(document))

\* C20: Left and Right are mutual inverses on the reachable cursors away from
\* the two ends of the document: from every reachable cursor other than (0,0),
\* Left and then Right gives the cursor back; from every reachable cursor other
\* than (0, document.len()), Right and then Left gives the cursor back.
LeftRightInverses ==
    /\ cursor_position # PositionDefault
        => move_cursor(move_cursor(cursor_position, document, "Left"),
                       document, "Right") = cursor_position
    /\ cursor_position # FinalPosition
        => move_cursor(move_cursor(cursor_position, document, "Right"),
                       document, "Left") = cursor_position
    /\ (last.key = "Left" /\ last.cursor_position # PositionDefault)
        => move_cursor(cursor_position, document, "Right") = last.cursor_position
    /\ (last.key = "Right" /\ last.cursor_position # FinalPosition)
        => move_cursor(cursor_position, document, "Left") = last.cursor_position

\* Right has been pressed at the end of a row that has characters, and Left
\* from the start of the next line leads back there.
LeftRightInversesWitness ==
    /\ last.key = "Right"
    /\ last.cursor_position.x > 0
    /\ cursor_position = Position(0, last.cursor_position.y + 1)
    /\ move_cursor(cursor_position, document, "Left") = last.cursor_position

====
